---- MODULE Spec2Model ----
(***************************************************************************)
(* NPV calculator (src/app.py): the NPV evaluator npv, the cash-flow       *)
(* projector build_savings_cf and the script's 5x5 sensitivity grid.       *)
(*                                                                         *)
(* Numbers.  The script computes with Python floats.  The model computes   *)
(* the value each float expression denotes, exactly, as a rational         *)
(* [n |-> signed integer, d |-> positive integer]; rounding of the binary  *)
(* floating-point format is not modelled.  Integers are arbitrary          *)
(* precision (sequences of limbs, least significant first), because the    *)
(* powers (1+rate)^t of a 20-year horizon do not fit a machine word.       *)
(* Python's float errors are modelled: x / 0.0 raises ZeroDivisionError,   *)
(* and 0.0 ** 0 is 1.0.                                                    *)
(***************************************************************************)
EXTENDS Integers, Sequences, FiniteSets, TLC

----------------------------------------------------------------------------
(* Arbitrary-precision naturals: limbs in 0..Base-1 (three decimal digits), *)
(* least significant first, no most-significant zero limb; zero is << >>.  *)
(* Carries and borrows are found by look-ahead rather than by recursion    *)
(* over the limbs, which keeps the evaluation shallow for long numbers.    *)

Base == 10 * 10 * 10

RECURSIVE NatOfInt(_)
NatOfInt(k) == IF k = 0 THEN << >> ELSE <<k % Base>> \o NatOfInt(k \div Base)

\* the function f over 1..n as a tuple
Limbs(f) == SubSeq(f, 1, Len(f))

\* limb k of a, 0 outside the number
At(a, k) == IF k >= 1 /\ k <= Len(a) THEN a[k] ELSE 0

\* the index of the most significant non-zero limb, 0 if there is none
Top(a) ==
    IF \A i \in 1 .. Len(a) : a[i] = 0 THEN 0
    ELSE CHOOSE i \in 1 .. Len(a) : a[i] # 0 /\ \A m \in i + 1 .. Len(a) : a[m] = 0

NatStrip(a) == SubSeq(a, 1, Top(a))

\* every limb keeps its low digits and takes what the limb below carries out
CarryPass(c) ==
    IF c = << >> THEN << >>
    ELSE Limbs([k \in 1 .. Len(c) + 1 |-> (At(c, k) % Base) + (At(c, k - 1) \div Base)])

\* for limbs of at most 2 * Base - 2: a carry enters limb k iff a limb below
\* overflows and every limb between is Base - 1
CarryIn(v, k) ==
    \E j \in 1 .. k - 1 : v[j] >= Base /\ \A m \in j + 1 .. k - 1 : v[m] = Base - 1

CarryResolve(v) ==
    IF v = << >> THEN << >>
    ELSE Limbs([k \in 1 .. Len(v) + 1 |->
                   (At(v, k) + IF CarryIn(v, k) THEN 1 ELSE 0) % Base])

\* the natural whose limb values, each below 998 * Base * Base, are c: two
\* passes leave every limb at most 2 * Base - 2
NatOfLimbs(c) == NatStrip(CarryResolve(CarryPass(CarryPass(c))))

Max(a, b) == IF a > b THEN a ELSE b

Min(a, b) == IF a < b THEN a ELSE b

NatAdd(a, b) ==
    IF a = << >> THEN b
    ELSE IF b = << >> THEN a
    ELSE NatStrip(CarryResolve(Limbs([k \in 1 .. Max(Len(a), Len(b)) |->
                                         At(a, k) + At(b, k)])))

\* -1, 0 or 1 as a < b, a = b, a > b
NatCmp(a, b) ==
    IF Len(a) < Len(b) THEN -1
    ELSE IF Len(a) > Len(b) THEN 1
    ELSE IF a = b THEN 0
    ELSE LET i == CHOOSE i \in 1 .. Len(a) :
                      a[i] # b[i] /\ \A m \in i + 1 .. Len(a) : a[m] = b[m]
         IN  IF a[i] < b[i] THEN -1 ELSE 1

\* a borrow enters limb k iff a limb below is short and every limb between is 0
BorrowIn(v, k) ==
    \E j \in 1 .. k - 1 : v[j] < 0 /\ \A m \in j + 1 .. k - 1 : v[m] = 0

BorrowResolve(v) ==
    Limbs([k \in 1 .. Len(v) |->
              (v[k] - (IF BorrowIn(v, k) THEN 1 ELSE 0) + Base) % Base])

\* a - b for a >= b
NatSub(a, b) == NatStrip(BorrowResolve(Limbs([k \in 1 .. Len(a) |-> a[k] - At(b, k)])))

\* a * k for one limb k
NatMulLimb(a, k) == NatOfLimbs(Limbs([i \in 1 .. Len(a) |-> a[i] * k]))

\* the sum of a[i] * b[k + 1 - i] for i in lo..hi
RECURSIVE LimbProducts(_, _, _, _, _)
LimbProducts(a, b, k, lo, hi) ==
    IF lo > hi THEN 0
    ELSE IF lo = hi THEN a[lo] * b[k + 1 - lo]
    ELSE LimbProducts(a, b, k, lo, (lo + hi) \div 2)
         + LimbProducts(a, b, k, ((lo + hi) \div 2) + 1, hi)

NatMul(a, b) ==
    IF a = << >> \/ b = << >> THEN << >>
    ELSE IF b = <<1>> THEN a
    ELSE IF a = <<1>> THEN b
    ELSE NatOfLimbs(Limbs([k \in 1 .. Len(a) + Len(b) - 1 |->
                              LimbProducts(a, b, k, Max(1, k + 1 - Len(b)),
                                           Min(k, Len(a)))]))

\* the number of decimal zeros a > 0 ends with
TrailingZeros(a) ==
    LET i == CHOOSE i \in 1 .. Len(a) : a[i] # 0 /\ \A m \in 1 .. i - 1 : a[m] = 0
    IN  3 * (i - 1) + (IF a[i] % 100 = 0 THEN 2 ELSE IF a[i] % 10 = 0 THEN 1 ELSE 0)

\* a \div p for p = 10 or 100 dividing a
NatDivTen(a, p) ==
    NatStrip(Limbs([k \in 1 .. Len(a) |->
                       (a[k] \div p) + (At(a, k + 1) % p) * (Base \div p)]))

\* a \div 10^z for a number a that ends with z zeros
NatDropZeros(a, z) ==
    LET rest == SubSeq(a, (z \div 3) + 1, Len(a))
    IN  IF z % 3 = 0 THEN rest
        ELSE NatDivTen(rest, IF z % 3 = 1 THEN 10 ELSE 100)

\* the machine integer of a natural of at most three limbs
IntOfNat(a) == At(a, 1) + Base * At(a, 2) + Base * Base * At(a, 3)

\* the limb m with x * m = y, or 0 if there is none; x, y > 0.  The leading
\* limbs of y over those of x give m to within one.
SmallQuotient(y, x) ==
    IF Len(y) < Len(x) \/ Len(y) > Len(x) + 1 THEN 0
    ELSE LET x2 == At(x, Len(x)) * Base + At(x, Len(x) - 1)
             y3 == At(y, Len(x) - 1) + Base * At(y, Len(x))
                   + Base * Base * At(y, Len(x) + 1)
             found == {m \in {(y3 \div x2) - 1, y3 \div x2, (y3 \div x2) + 1} :
                          m >= 1 /\ m < Base /\ NatMulLimb(x, m) = y}
         IN  IF found = {} THEN 0 ELSE CHOOSE m \in found : TRUE

\* Euclid's algorithm, three steps at a time
RECURSIVE Gcd(_, _)
Gcd(a, b) ==
    IF b = 0 THEN a
    ELSE IF a % b = 0 THEN b
    ELSE IF b % (a % b) = 0 THEN a % b
    ELSE Gcd(b % (a % b), (a % b) % (b % (a % b)))

----------------------------------------------------------------------------
(* Signed integers [neg, mag] (zero is never negative) and rationals.      *)

ZMk(neg, mag) == [neg |-> neg /\ mag # << >>, mag |-> mag]

ZOfInt(k) == IF k < 0 THEN ZMk(TRUE, NatOfInt(-k)) ELSE ZMk(FALSE, NatOfInt(k))

ZNeg(x) == ZMk(~x.neg, x.mag)

ZAdd(x, y) ==
    IF x.neg = y.neg THEN ZMk(x.neg, NatAdd(x.mag, y.mag))
    ELSE IF NatCmp(x.mag, y.mag) >= 0 THEN ZMk(x.neg, NatSub(x.mag, y.mag))
    ELSE ZMk(y.neg, NatSub(y.mag, x.mag))

ZMulNat(x, m) == ZMk(x.neg, NatMul(x.mag, m))

\* -1, 0 or 1
ZCmp(x, y) ==
    IF x.neg /\ ~y.neg THEN -1
    ELSE IF ~x.neg /\ y.neg THEN 1
    ELSE IF x.neg THEN NatCmp(y.mag, x.mag)
    ELSE NatCmp(x.mag, y.mag)

RatDropZeros(x, z) ==
    [n |-> ZMk(x.n.neg, NatDropZeros(x.n.mag, z)), d |-> NatDropZeros(x.d, z)]

RatLowestTerms(x, g) ==
    IF g = 1 THEN x
    ELSE [n |-> ZMk(x.n.neg, NatOfInt(IntOfNat(x.n.mag) \div g)),
          d |-> NatOfInt(IntOfNat(x.d) \div g)]

\* Reduction of a fraction: it keeps the integers short and never changes
\* the value.  Short fractions are reduced to lowest terms, long ones lose
\* their common power of ten.
RatNorm(x) ==
    IF x.n.mag = << >> THEN [n |-> x.n, d |-> <<1>>]
    ELSE IF Len(x.n.mag) <= 3 /\ Len(x.d) <= 3
    THEN RatLowestTerms(x, Gcd(IntOfNat(x.n.mag), IntOfNat(x.d)))
    ELSE RatDropZeros(x, Min(TrailingZeros(x.n.mag), TrailingZeros(x.d)))

\* the rational p/q of two machine integers, q > 0
Rat(p, q) == RatNorm([n |-> ZOfInt(p), d |-> NatOfInt(q)])

RatIsZero(x) == x.n.mag = << >>

RatNeg(x) == [n |-> ZNeg(x.n), d |-> x.d]

RatAbs(x) == [n |-> ZMk(FALSE, x.n.mag), d |-> x.d]

\* x + y over the denominator of y when it is m >= 1 times that of x, over
\* the product of the denominators when m = 0
RatAddOver(x, y, m) ==
    IF m # 0 THEN [n |-> ZAdd(ZMulNat(x.n, <<m>>), y.n), d |-> y.d]
    ELSE [n |-> ZAdd(ZMulNat(x.n, y.d), ZMulNat(y.n, x.d)), d |-> NatMul(x.d, y.d)]

RatAdd(x, y) ==
    IF RatIsZero(x) THEN y
    ELSE IF RatIsZero(y) THEN x
    ELSE
    RatNorm(IF x.d = y.d THEN [n |-> ZAdd(x.n, y.n), d |-> x.d]
            ELSE IF NatCmp(x.d, y.d) <= 0 THEN RatAddOver(x, y, SmallQuotient(y.d, x.d))
            ELSE RatAddOver(y, x, SmallQuotient(x.d, y.d)))

RatSub(x, y) == IF RatIsZero(y) THEN x ELSE RatAdd(x, RatNeg(y))

RatMul(x, y) ==
    IF RatIsZero(x) THEN x
    ELSE IF RatIsZero(y) THEN y
    ELSE RatNorm([n |-> ZMk(x.n.neg # y.n.neg, NatMul(x.n.mag, y.n.mag)),
                  d |-> NatMul(x.d, y.d)])

\* x / y for y # 0
RatDiv(x, y) ==
    IF RatIsZero(x) THEN x
    ELSE IF y.d = <<1>> /\ y.n.mag = <<1>> THEN (IF y.n.neg THEN RatNeg(x) ELSE x)
    ELSE RatNorm([n |-> ZMk(x.n.neg # y.n.neg, NatMul(x.n.mag, y.d)),
                  d |-> NatMul(x.d, y.n.mag)])

\* a ** k for a natural a and an integer k >= 0, by squaring
RECURSIVE NatPow(_, _)
NatPow(a, k) ==
    IF k = 0 THEN <<1>>
    ELSE IF k = 1 \/ a = << >> \/ a = <<1>> THEN a
    ELSE LET h == NatPow(a, k \div 2)
         IN  IF k % 2 = 0 THEN NatMul(h, h) ELSE NatMul(NatMul(h, h), a)

\* x ** k for an integer k >= 0; x ** 0 is 1 for every x, zero included
\* (Python: 0.0 ** 0 == 1.0)
RatPow(x, k) ==
    RatNorm([n |-> ZMk(x.n.neg /\ k % 2 = 1, NatPow(x.n.mag, k)),
             d |-> NatPow(x.d, k)])

\* -1, 0 or 1
RatCmp(x, y) ==
    IF x.n.neg # y.n.neg THEN (IF x.n.neg THEN -1 ELSE 1)
    ELSE IF x.d = y.d THEN ZCmp(x.n, y.n)
    ELSE ZCmp(ZMulNat(x.n, y.d), ZMulNat(y.n, x.d))

RatEq(x, y) == RatCmp(x, y) = 0

RatLt(x, y) == RatCmp(x, y) < 0

RatLe(x, y) == RatCmp(x, y) <= 0

----------------------------------------------------------------------------
(* The helpers of src/app.py.  A call's outcome is [exc, value]: exc is    *)
(* "none" and value the returned number, or exc names the exception the    *)
(* call raised (value is then meaningless and kept at 0).                  *)

Zero == Rat(0, 1)

One == Rat(1, 1)

Returned(v) == [exc |-> "none", value |-> v]

Raised(e) == [exc |-> e, value |-> Zero]

\* faulty variants of DiscountFactor: rate ** t, and an index counted from 1
DiscountFactor_rate_only(rate, t) == RatPow(rate, t)

DiscountFactor_one_based(rate, t) == RatPow(RatAdd(One, rate), t + 1)

\* (1 + rate) ** t
DiscountFactor(rate, t) == RatPow(RatAdd(One, rate), t)

\* faulty variant of DiscountedTerm: cf * factor
DiscountedTerm_multiplied(rate, t, cf) == Returned(RatMul(cf, DiscountFactor(rate, t)))

\* cf / ((1 + rate) ** t): float division by 0.0 raises ZeroDivisionError
DiscountedTerm(rate, t, cf) ==
    LET f == DiscountFactor(rate, t)
    IN  IF RatIsZero(f) THEN Raised("ZeroDivisionError")
        ELSE Returned(RatDiv(cf, f))

\* faulty variant of AddTerm: the total is overwritten, not added to
AddTerm_overwritten(total, term) == IF total.exc # "none" THEN total ELSE term

\* total + term, term the outcome of cf / ((1 + rate) ** t); an outcome
\* that raised stays raised
AddTerm(total, term) ==
    IF total.exc # "none" THEN total
    ELSE IF term.exc # "none" THEN term
    ELSE Returned(RatAdd(total.value, term.value))

\* sum(...) over the first k entries of enumerate(cashflows), indices 0..k-1,
\* added left to right from 0; the first term that raises ends the call
RECURSIVE SumTo(_, _, _)
SumTo(rate, cashflows, k) ==
    IF k = 0 THEN Returned(Zero)
    ELSE AddTerm(SumTo(rate, cashflows, k - 1),
                 DiscountedTerm(rate, k - 1, cashflows[k]))

npv(rate, cashflows) == SumTo(rate, cashflows, Len(cashflows))

\* fixed_yearly = ml_monthly_cost * 12
FixedYearly(ml_monthly_cost) == RatMul(ml_monthly_cost, Rat(12, 1))

\* faulty variant of SavingOfYear: year 1 is escalated too (exponent y)
SavingOfYear_escalated(y, dh_annual_cost_now, elec_price_now, gshp_annual_elec_use, dh_growth, elec_growth, fixed_yearly) ==
    RatSub(RatMul(dh_annual_cost_now, RatPow(RatAdd(One, dh_growth), y)),
           RatAdd(RatMul(gshp_annual_elec_use,
                         RatMul(elec_price_now, RatPow(RatAdd(One, elec_growth), y))),
                  fixed_yearly))

\* the body of the loop of build_savings_cf for year y: saving_y
SavingOfYear(y, dh_annual_cost_now, elec_price_now, gshp_annual_elec_use, dh_growth, elec_growth, fixed_yearly) ==
    LET dh_cost_y == RatMul(dh_annual_cost_now, RatPow(RatAdd(One, dh_growth), y - 1))
        elec_price_y == RatMul(elec_price_now, RatPow(RatAdd(One, elec_growth), y - 1))
        ml_operating_y == RatAdd(RatMul(gshp_annual_elec_use, elec_price_y), fixed_yearly)
    IN  RatSub(dh_cost_y, ml_operating_y)

\* faulty variant of YearRange: range(1, years)
YearRange_short(years) == 1 .. years - 1

\* range(1, years + 1): empty when years < 1
YearRange(years) == 1 .. years

\* build_savings_cf: the list the loop appends to, one saving_y per year of
\* the range in ascending order; it has no failing path
build_savings_cf(years, dh_annual_cost_now, elec_price_now, gshp_annual_elec_use, dh_growth, elec_growth, ml_monthly_cost) ==
    [y \in YearRange(years) |->
        SavingOfYear(y, dh_annual_cost_now, elec_price_now, gshp_annual_elec_use,
                     dh_growth, elec_growth, FixedYearly(ml_monthly_cost))]

\* faulty variant of InvestmentEntry: [-ml_capex]
InvestmentEntry_signed(ml_capex) == <<RatNeg(ml_capex)>>

\* [-abs(ml_capex)]
InvestmentEntry(ml_capex) == <<RatNeg(RatAbs(ml_capex))>>

\* cfs = [-abs(ml_capex)] + savings
FullCashflows(ml_capex, savings) == InvestmentEntry(ml_capex) \o savings

----------------------------------------------------------------------------
(* Bounds of the model.                                                    *)

\* the longest horizon of a modelled run or call (the widget allows 1..50)
MaxYears == 3

\* the years argument of a direct call ranges over -MaxNegYears..MaxYears
MaxNegYears == 1

\* the longest cash-flow list of a direct call of npv
MaxLen == 3

\* amounts of a direct call: the integers -MaxAmount..MaxAmount
MaxAmount == 1

\* rates of a direct call: the halves p/2 for p in -RateSpan..RateSpan
RateSpan == 4

\* growth rates of a direct call: the halves g/2 for g in -GrowthSpan..GrowthSpan
GrowthSpan == 1

\* discount rates of the default scenario: the default and this many widget
\* steps either side of it
ScenarioSteps == 2

----------------------------------------------------------------------------
(* The script: widget values, then the 5x5 grid (src/app.py:48-95).        *)

\* st.sidebar.number_input("Aika (vuotta)", 1, 50, 20, step=1)
MinYearsWidget == 1

MaxYearsWidget == 50

DefaultYears == 20

\* number_input("Diskonttauskorko (%)", -50.0, 100.0, 6.0, step=0.25) / 100.0
MinRate == Rat(-50, 100)

MaxRate == Rat(100, 100)

DefaultRate == Rat(600, 10000)

RateStep == Rat(25, 10000)

DefaultDhAnnual == Rat(40000, 1)

DefaultElecPrice == Rat(12, 100)

DefaultElecUse == Rat(120000, 1)

DefaultMonthlyCost == Rat(0, 1)

DefaultCapex == Rat(250000, 1)

elec_growths == <<Rat(0, 100), Rat(1, 100), Rat(2, 100), Rat(3, 100), Rat(4, 100)>>

dh_growths == <<Rat(0, 100), Rat(1, 100), Rat(2, 100), Rat(3, 100), Rat(4, 100)>>

\* values the widgets can hold in a modelled run
YearsValues == {y \in 1 .. MaxYears : MinYearsWidget <= y /\ y <= MaxYearsWidget}

RateValues == {MinRate, DefaultRate, MaxRate}

DhAnnualValues == {DefaultDhAnnual}

ElecPriceValues == {DefaultElecPrice}

ElecUseValues == {DefaultElecUse, Rat(0, 1)}

MonthlyCostValues == {DefaultMonthlyCost, Rat(10, 1)}

CapexValues == {DefaultCapex, RatNeg(DefaultCapex)}

VARIABLES
    \* the script's globals
    years, rate_pct, dh_annual_now, elec_price_now, ml_elec_use, ml_monthly_cost,
    ml_capex, npv_matrix, row, savings, cfs,
    ei, di,        \* items the outer and the inner for loop have taken
    pc,            \* where the script run is
    \* a direct call of a helper: its name, its arguments, its outcome
    fn, args, out,
    \* a call of npv in progress: its arguments, the generator's index, the
    \* running total of sum()
    sum_rate, sum_cashflows, sum_t, sum_total, sum_pc

widgets == <<years, rate_pct, dh_annual_now, elec_price_now, ml_elec_use,
             ml_monthly_cost, ml_capex>>

scriptVars == <<widgets, npv_matrix, row, savings, cfs, ei, di, pc>>

callVars == <<fn, args, out>>

sumVars == <<sum_rate, sum_cashflows, sum_t, sum_total, sum_pc>>

vars == <<scriptVars, callVars, sumVars>>

\* no script run, no direct call, no call in progress
ScriptIdle ==
    /\ years = 0 /\ rate_pct = Zero /\ dh_annual_now = Zero /\ elec_price_now = Zero
    /\ ml_elec_use = Zero /\ ml_monthly_cost = Zero /\ ml_capex = Zero
    /\ npv_matrix = << >> /\ row = << >> /\ savings = << >> /\ cfs = << >>
    /\ ei = 0 /\ di = 0 /\ pc = "off"

CallsIdle == fn = "none" /\ args = << >> /\ out = << >>

SumIdle ==
    /\ sum_rate = Zero /\ sum_cashflows = << >> /\ sum_t = 0
    /\ sum_total = Returned(Zero) /\ sum_pc = "off"

\* a script run starts: the widgets hold their values, nothing is computed
StartRun ==
    /\ years \in YearsValues
    /\ rate_pct \in RateValues
    /\ dh_annual_now \in DhAnnualValues
    /\ elec_price_now \in ElecPriceValues
    /\ ml_elec_use \in ElecUseValues
    /\ ml_monthly_cost \in MonthlyCostValues
    /\ ml_capex \in CapexValues
    /\ npv_matrix = << >> /\ row = << >> /\ savings = << >> /\ cfs = << >>
    /\ ei = 0 /\ di = 0 /\ pc = "outer"

Init == StartRun /\ CallsIdle /\ SumIdle

\* the value of eg and dg once the loops have assigned them
eg == elec_growths[ei]

dg == dh_growths[di]

\* faulty variant of CellSavings: the two growth arguments change places
CellSavings_swapped(i, j) ==
    build_savings_cf(years, dh_annual_now, elec_price_now, ml_elec_use,
                     elec_growths[i], dh_growths[j], ml_monthly_cost)

\* the call of lines 79-87 for eg = elec_growths[i], dg = dh_growths[j]
CellSavings(i, j) ==
    build_savings_cf(years, dh_annual_now, elec_price_now, ml_elec_use,
                     dh_growths[j], elec_growths[i], ml_monthly_cost)

\* for eg in elec_growths: row = [] ... ; after the last row, df is built
OuterNext ==
    /\ pc = "outer"
    /\ IF ei < Len(elec_growths)
       THEN /\ ei' = ei + 1
            /\ row' = << >>
            /\ di' = 0
            /\ pc' = "inner"
       ELSE /\ pc' = "done"
            /\ UNCHANGED <<ei, row, di>>
    /\ UNCHANGED <<widgets, npv_matrix, savings, cfs, callVars, sumVars>>

\* for dg in dh_growths: the loop body, lines 79-89; an exception of npv
\* ends the run
InnerNext ==
    /\ pc = "inner"
    /\ di < Len(dh_growths)
    /\ di' = di + 1
    /\ savings' = CellSavings(ei, di + 1)
    /\ cfs' = FullCashflows(ml_capex, savings')
    /\ LET outcome == npv(rate_pct, cfs')
       IN  IF outcome.exc = "none"
           THEN row' = Append(row, outcome.value) /\ pc' = "inner"
           ELSE row' = row /\ pc' = "raised"
    /\ UNCHANGED <<widgets, npv_matrix, ei, callVars, sumVars>>

\* the inner loop is exhausted: npv_matrix.append(row)
RowEnd ==
    /\ pc = "inner"
    /\ di = Len(dh_growths)
    /\ npv_matrix' = Append(npv_matrix, row)
    /\ pc' = "outer"
    /\ UNCHANGED <<widgets, row, savings, cfs, ei, di, callVars, sumVars>>

\* a widget changes after the page is rendered: the script runs again from
\* the top, with fresh globals
Rerun ==
    /\ pc \in {"done", "raised"}
    /\ years' \in YearsValues
    /\ rate_pct' \in RateValues
    /\ dh_annual_now' \in DhAnnualValues
    /\ elec_price_now' \in ElecPriceValues
    /\ ml_elec_use' \in ElecUseValues
    /\ ml_monthly_cost' \in MonthlyCostValues
    /\ ml_capex' \in CapexValues
    /\ npv_matrix' = << >> /\ row' = << >> /\ savings' = << >> /\ cfs' = << >>
    /\ ei' = 0 /\ di' = 0 /\ pc' = "outer"
    /\ UNCHANGED <<callVars, sumVars>>

Next == OuterNext \/ InnerNext \/ RowEnd \/ Rerun

Spec == Init /\ [][Next]_vars

----------------------------------------------------------------------------
(* Direct calls of the two helpers, with arguments the widgets would not   *)
(* give: any sign, rates down to and below -100 %, horizons below 1.       *)

Amounts == {Rat(a, 1) : a \in -MaxAmount .. MaxAmount}

CallRates == {Rat(p, 2) : p \in -RateSpan .. RateSpan}

Growths == {Rat(g, 2) : g \in -GrowthSpan .. GrowthSpan}

CallPrices == {DefaultElecPrice, Rat(-1, 1)}

CallFees == {Rat(0, 1), Rat(5, 2)}

RECURSIVE SeqsUpTo(_, _)
SeqsUpTo(S, k) ==
    IF k = 0 THEN {<< >>}
    ELSE SeqsUpTo(S, k - 1) \cup {Append(q, x) : q \in SeqsUpTo(S, k - 1), x \in S}

CallCashflows == SeqsUpTo(Amounts, MaxLen)

InitCalls == ScriptIdle /\ CallsIdle /\ SumIdle

\* npv(rate, cashflows) is called and returns or raises
CallNpv ==
    /\ fn = "none"
    /\ \E rate \in CallRates, cashflows \in CallCashflows :
          /\ args' = [rate |-> rate, cashflows |-> cashflows]
          /\ out' = npv(rate, cashflows)
    /\ fn' = "npv"
    /\ UNCHANGED <<scriptVars, sumVars>>

\* build_savings_cf(...) is called and returns
CallBuild ==
    /\ fn = "none"
    /\ \E y \in -MaxNegYears .. MaxYears, dh \in Amounts, price \in CallPrices,
          use \in Amounts, dhg \in Growths, elg \in Growths, fee \in CallFees :
          /\ args' = [years |-> y, dh_annual_cost_now |-> dh, elec_price_now |-> price,
                      gshp_annual_elec_use |-> use, dh_growth |-> dhg,
                      elec_growth |-> elg, ml_monthly_cost |-> fee]
          /\ out' = Returned(build_savings_cf(y, dh, price, use, dhg, elg, fee))
    /\ fn' = "build_savings_cf"
    /\ UNCHANGED <<scriptVars, sumVars>>

\* the caller is done with the outcome
CallOver ==
    /\ fn # "none"
    /\ fn' = "none" /\ args' = << >> /\ out' = << >>
    /\ UNCHANGED <<scriptVars, sumVars>>

NextCalls == CallNpv \/ CallBuild \/ CallOver

SpecCalls == InitCalls /\ [][NextCalls]_vars

----------------------------------------------------------------------------
(* The call npv(rate_pct, cfs) of line 89 for the grid cell of zero growth *)
(* on both streams, with the widgets at their defaults and the discount    *)
(* rate at the default or a few widget steps from it; sum() is followed    *)
(* term by term.                                                           *)

RECURSIVE RatTimesInt(_, _)
RatTimesInt(x, k) ==
    IF k = 0 THEN Zero
    ELSE IF k < 0 THEN RatNeg(RatTimesInt(x, -k))
    ELSE RatAdd(RatTimesInt(x, k - 1), x)

ScenarioRates ==
    {RatAdd(DefaultRate, RatTimesInt(RateStep, k)) : k \in -ScenarioSteps .. ScenarioSteps}

ScenarioCashflows ==
    FullCashflows(DefaultCapex,
                  build_savings_cf(DefaultYears, DefaultDhAnnual, DefaultElecPrice,
                                   DefaultElecUse, dh_growths[1], elec_growths[1],
                                   DefaultMonthlyCost))

InitScenario ==
    /\ ScriptIdle /\ CallsIdle
    /\ sum_rate \in ScenarioRates
    /\ sum_cashflows = ScenarioCashflows
    /\ sum_t = 0
    /\ sum_total = Returned(Zero)
    /\ sum_pc = "summing"

\* the generator yields cf / ((1 + rate) ** t) for the next (t, cf) and sum()
\* adds it; a raising term ends the call
SumStep ==
    /\ sum_pc = "summing"
    /\ sum_t < Len(sum_cashflows)
    /\ sum_total' = AddTerm(sum_total,
                            DiscountedTerm(sum_rate, sum_t, sum_cashflows[sum_t + 1]))
    /\ sum_t' = sum_t + 1
    /\ sum_pc' = IF sum_total'.exc = "none" THEN "summing" ELSE "raised"
    /\ UNCHANGED <<sum_rate, sum_cashflows, scriptVars, callVars>>

\* the generator is exhausted: npv returns the total
SumReturn ==
    /\ sum_pc = "summing"
    /\ sum_t = Len(sum_cashflows)
    /\ sum_pc' = "returned"
    /\ UNCHANGED <<sum_rate, sum_cashflows, sum_t, sum_total, scriptVars, callVars>>

NextScenario == SumStep \/ SumReturn

SpecScenario == InitScenario /\ [][NextScenario]_vars

----------------------------------------------------------------------------
(* The properties.                                                         *)

IsBuildCall == fn = "build_savings_cf"

IsNpvCall == fn = "npv"

\* x ** k as a product of k factors
RECURSIVE PowerByProduct(_, _)
PowerByProduct(x, k) == IF k = 0 THEN One ELSE RatMul(x, PowerByProduct(x, k - 1))

\* the undiscounted sum of the first k entries
RECURSIVE PlainSum(_, _)
PlainSum(q, k) == IF k = 0 THEN Zero ELSE RatAdd(PlainSum(q, k - 1), q[k])

\* every entry at index >= 1 (the second entry on) is positive
PositiveAfterFirst(q) == \A k \in 2 .. Len(q) : RatLt(Zero, q[k])

\* C1: for a horizon h >= 1, whatever the other arguments, build_savings_cf
\* returns a list of exactly h entries, indexed by the years 1..h.
C1_LengthIsHorizon ==
    (IsBuildCall /\ args.years >= 1) =>
        /\ out.exc = "none"
        /\ DOMAIN out.value = 1 .. args.years
        /\ Len(out.value) = args.years

C1_Witness ==
    IsBuildCall /\ args.years = MaxYears /\ Len(out.value) = MaxYears

\* what C2 says entry y is
C2_Entry(a, y) ==
    RatSub(RatMul(a.dh_annual_cost_now,
                  PowerByProduct(RatAdd(One, a.dh_growth), y - 1)),
           RatAdd(RatMul(a.gshp_annual_elec_use,
                         RatMul(a.elec_price_now,
                                PowerByProduct(RatAdd(One, a.elec_growth), y - 1))),
                  RatMul(Rat(12, 1), a.ml_monthly_cost)))

\* C2: entry y of the result is
\* baseline_cost_now*(1+baseline_growth)^(y-1)
\*   - (consumption*alt_price_now*(1+price_growth)^(y-1) + 12*fixed_monthly_fee)
\* for every year y of 1..horizon.
C2_EntryFormula ==
    IsBuildCall =>
        \A y \in 1 .. args.years : RatEq(out.value[y], C2_Entry(args, y))

C2_Witness ==
    /\ IsBuildCall /\ args.years >= 3
    /\ ~RatIsZero(args.dh_growth) /\ ~RatIsZero(args.elec_growth)
    /\ args.dh_growth # args.elec_growth
    /\ ~RatIsZero(args.ml_monthly_cost) /\ ~RatIsZero(args.dh_annual_cost_now)
    /\ ~RatIsZero(args.gshp_annual_elec_use)
    /\ ~RatEq(out.value[3], out.value[1])

\* C3: with discount rate 0, npv returns the undiscounted sum of the entries.
C3_ZeroRateIsSum ==
    (IsNpvCall /\ RatIsZero(args.rate)) =>
        /\ out.exc = "none"
        /\ RatEq(out.value, PlainSum(args.cashflows, Len(args.cashflows)))

C3_Witness ==
    /\ IsNpvCall /\ RatIsZero(args.rate) /\ Len(args.cashflows) >= 3
    /\ \A k \in 1 .. Len(args.cashflows) : RatLt(Zero, args.cashflows[k])
    /\ RatLe(Rat(3, 1), out.value)

\* C4: for every discount rate, -1 included, npv of a one-entry list [X]
\* returns X and raises nothing.
C4_SingleEntry ==
    (IsNpvCall /\ Len(args.cashflows) = 1) =>
        /\ out.exc = "none"
        /\ RatEq(out.value, args.cashflows[1])

C4_Witness ==
    /\ IsNpvCall /\ Len(args.cashflows) = 1 /\ RatEq(args.rate, Rat(-1, 1))
    /\ ~RatIsZero(args.cashflows[1]) /\ out.exc = "none"

\* npv at another rate r2 > rate of the call returned, and returned less
LessAtHigherRates ==
    \A r2 \in CallRates :
        RatLt(args.rate, r2) =>
            /\ out.exc = "none"
            /\ npv(r2, args.cashflows).exc = "none"
            /\ RatLt(npv(r2, args.cashflows).value, out.value)

\* C5 as stated: for a list whose entries at every index >= 1 are positive,
\* npv(r1, cfs) > npv(r2, cfs) for any two rates r1 < r2.
C5_Original == (IsNpvCall /\ PositiveAfterFirst(args.cashflows)) => LessAtHigherRates

\* C5 amended: the same for two rates above -1 (-100 %) and a list with at
\* least one entry at an index >= 1, the values being exact.
C5_Decreasing ==
    (/\ IsNpvCall /\ PositiveAfterFirst(args.cashflows)
     /\ Len(args.cashflows) >= 2 /\ RatLt(Rat(-1, 1), args.rate)) => LessAtHigherRates

C5_Witness ==
    /\ IsNpvCall /\ PositiveAfterFirst(args.cashflows) /\ Len(args.cashflows) >= 3
    /\ RatLt(Rat(-1, 1), args.rate) /\ RatLt(args.rate, Zero)
    /\ RatLt(args.cashflows[1], Zero)
    /\ \E r2 \in CallRates : RatLt(args.rate, r2)

\* C6: a call of build_savings_cf with a zero or negative horizon raises
\* InvalidInputError; it returns no list.  (The code has no such check: the
\* range of years is empty and the call returns the empty list.)
C6_RaisesOnNonPositive ==
    (IsBuildCall /\ args.years <= 0) => out.exc = "InvalidInputError"

\* C7: npv with rate -1 (1 + rate = 0) on a list with an entry at an index
\* >= 1 ends in InvalidRateError.  (The code has no such check: the division
\* by (1 + rate) ** t = 0.0 raises Python's ZeroDivisionError.)
C7_RaisesInvalidRate ==
    (IsNpvCall /\ RatEq(args.rate, Rat(-1, 1)) /\ Len(args.cashflows) >= 2) =>
        out.exc = "InvalidRateError"

\* -250000 + 25600 * (1 - (1 + r)^-20) / r
AnnuityForm(r) ==
    RatAdd(Rat(-250000, 1),
           RatDiv(RatMul(Rat(25600, 1),
                         RatSub(One, RatDiv(One, RatPow(RatAdd(One, r), 20)))),
                  r))

SummedDefaultScenario ==
    sum_pc = "returned" /\ sum_rate = Rat(6, 100) /\ Len(sum_cashflows) = 21

\* C8 as stated: for rate 0.06, horizon 20 and the default amounts with zero
\* growth, the summation loop gives the annuity closed form, about 43,656.
C8_Original ==
    SummedDefaultScenario =>
        /\ sum_total.exc = "none"
        /\ RatEq(sum_total.value, AnnuityForm(sum_rate))
        /\ RatLe(Rat(436555, 10), sum_total.value)
        /\ RatLt(sum_total.value, Rat(436565, 10))

\* C8 amended: the summation loop gives the annuity closed form (at every
\* modelled rate), which at rate 0.06 is about 43,630 (43,629.98).
C8_Annuity ==
    sum_pc = "returned" =>
        /\ sum_total.exc = "none"
        /\ RatEq(sum_total.value, AnnuityForm(sum_rate))
        /\ SummedDefaultScenario =>
              /\ RatLe(Rat(4362998, 100), sum_total.value)
              /\ RatLt(sum_total.value, Rat(4362999, 100))

C8_Witness ==
    /\ SummedDefaultScenario /\ sum_t = 21
    /\ sum_cashflows[1] = Rat(-250000, 1)
    /\ \A k \in 2 .. 21 : sum_cashflows[k] = Rat(25600, 1)

\* C9: the list passed to npv has years + 1 entries, entry 0 is
\* -|investment| (never positive) whatever the investment's sign, and
\* entries 1..years are the projector's output for the cell, in year order.
C9_CashflowShape ==
    row # << >> =>
        /\ Len(cfs) = years + 1
        /\ RatEq(cfs[1], IF ml_capex.n.neg THEN ml_capex ELSE RatNeg(ml_capex))
        /\ RatLe(cfs[1], Zero)
        /\ savings = build_savings_cf(years, dh_annual_now, elec_price_now,
                                      ml_elec_use, dg, eg, ml_monthly_cost)
        /\ \A y \in 1 .. years : cfs[y + 1] = savings[y]

C9_Witness ==
    /\ row # << >> /\ ml_capex.n.neg /\ years >= 2 /\ ei = 3 /\ di = 2
    /\ Len(cfs) = years + 1

\* the value of cell (i, j) as a function of the widgets and the pair
\* (elec_growths[i], dh_growths[j]) alone
CellValue(i, j) ==
    npv(rate_pct,
        <<RatNeg(RatAbs(ml_capex))>>
        \o build_savings_cf(years, dh_annual_now, elec_price_now, ml_elec_use,
                            dh_growths[j], elec_growths[i], ml_monthly_cost)).value

MatrixOfCells ==
    /\ Len(npv_matrix) = Len(elec_growths)
    /\ \A i \in 1 .. Len(elec_growths) :
          /\ Len(npv_matrix[i]) = Len(dh_growths)
          /\ \A j \in 1 .. Len(dh_growths) : npv_matrix[i][j] = CellValue(i, j)

\* a step of one run keeps the widgets, the finished rows and the finished
\* cells of the current row
KeepsOtherCells ==
    pc \notin {"done", "raised"} =>
        /\ widgets' = widgets
        /\ Len(npv_matrix') >= Len(npv_matrix)
        /\ SubSeq(npv_matrix', 1, Len(npv_matrix)) = npv_matrix
        /\ (pc = "inner" => SubSeq(row', 1, Len(row)) = row)

\* C10: the value stored at row i, column j depends only on the widgets and
\* the pair (elec_growths[i], dh_growths[j]), so any order of evaluation
\* gives the same matrix; computing a cell changes neither the inputs nor
\* the result of another cell.
C10_CellsIndependent ==
    /\ [](pc = "done" => MatrixOfCells)
    /\ [][KeepsOtherCells]_vars

C10_Witness ==
    /\ pc = "done" /\ Len(npv_matrix) = 5 /\ years >= 2
    /\ npv_matrix[2][4] # npv_matrix[4][2]

====
